---- MODULE Spec2Model ----
(***************************************************************************)
(* Model of the data-download scripts of the California wildfire risk      *)
(* prediction platform.  Each script is an independent sequential program, *)
(* so each has its own specification over the shared variable tuple:       *)
(*   SpecWeather  scripts/download_weather_data.py (year-chunked loop)     *)
(*   SpecWeatherScript  the same script from its first line                *)
(*   SpecDecode   scripts/download_noaa_climate_divisions.py               *)
(*                (process_climate_file, the fixed-width decoder)          *)
(*   SpecClimate  scripts/download_noaa_climate_divisions.py (main)        *)
(*   SpecCensus   scripts/download_population_data.py                      *)
(*   SpecSelenium scripts/download_county_weather_selenium.py              *)
(***************************************************************************)
EXTENDS Integers, Sequences, FiniteSets, Bags, TLC

\* ------------------------------------------------------------------ bounds
\* Largest number of years in the requested range.
MaxYears == 2
\* Largest number of records in one API response.
MaxRecs == 1
\* Largest number of lines of a climate-division file given to the decoder.
MaxLines == 2
\* Largest number of lines the downloaded climate-division files hold together.
MaxTotalLines == 2
\* Largest number of Census rows of a run that are not the plain numeric row.
MaxOddRows == 1
\* The number of counties of CALIFORNIA_COUNTIES the browser run goes through.
MaxCounties == 2

\* ------------------------------------------------------- generic helpers
Range(s) == {s[i] : i \in 1..Len(s)}

RECURSIVE SumSeq(_)
SumSeq(s) == IF s = <<>> THEN 0 ELSE Head(s) + SumSeq(Tail(s))

\* ======================================================================
\* scripts/download_weather_data.py : download_weather_data_yearly
\* ======================================================================
VARIABLES
    start_year,      \* argument start_year
    end_year,        \* argument end_year
    year,            \* loop variable of `for year in range(...)`
    dtype,           \* index into datatypes of the next request of this year
    all_data,        \* list of DataFrames accumulated so far
    total_records,   \* running record count
    yearly_files,    \* year -> content of california_weather_{year}.csv
    combined_file,   \* content of california_weather_{s}_{e}_combined.csv
    requests,        \* history: every requests.get issued, in order
    last_outcome,    \* history: the outcome kind of the latest request
    ok_units,        \* history: every DataFrame a 200-with-results reply held
    sleeps,          \* history: durations slept since the last request
    wpc              \* position in download_weather_data_yearly

wvars == <<start_year, end_year, year, dtype, all_data, total_records,
           yearly_files, combined_file, requests, last_outcome, ok_units,
           sleeps, wpc>>

\* scripts/download_noaa_climate_divisions.py : process_climate_file
VARIABLES
    data_type,       \* argument data_type of process_climate_file
    lines_read,      \* history: the raw lines the file has yielded so far
    line_records,    \* history: the records appended for the latest line
    data,            \* list of records built so far
    pf_result,       \* return value of process_climate_file
    dpc              \* position in process_climate_file

dvars == <<data_type, lines_read, line_records, data, pf_result, dpc>>

\* scripts/download_noaa_climate_divisions.py : main
VARIABLES
    file_idx,         \* position of the download loop in files_to_download
    downloaded_files, \* downloaded_files, in insertion order, with the lines
                      \* each downloaded file holds
    proc_idx,         \* position of the processing loop in downloaded_files
    processed_dfs,    \* list of DataFrames returned by process_climate_file
    merged_df,        \* the variable merged_df
    merge_result,     \* history: merged_df as the merge loop left it
    processed_csv,    \* content of california_climate_data_processed.csv
    reported,         \* history: the failures printed so far
    mpc               \* position in main

mvars == <<file_idx, downloaded_files, proc_idx, processed_dfs, merged_df,
           merge_result, processed_csv, reported, mpc>>

\* scripts/download_population_data.py : download_all_population_data
VARIABLES
    year_idx,          \* position of `for year in years`
    pop_all_data,      \* the list all_data of download_all_population_data
    pop_year_files,    \* year -> content of california_population_{year}.csv
    pop_combined_file, \* content of california_population_combined.csv
    pop_requests,      \* history: every requests.get issued, in order
    pop_responses,     \* history: what each request was answered with
    pop_reported,      \* history: the years whose failure was printed
    pop_result,        \* return value of download_all_population_data
    ppc                \* position in download_all_population_data

pvars == <<year_idx, pop_all_data, pop_year_files, pop_combined_file,
           pop_requests, pop_responses, pop_reported, pop_result, ppc>>

\* scripts/download_county_weather_selenium.py : main
VARIABLES
    driver,               \* the variable driver: "unset", "none" (setup_driver
                          \* returned None), "session" or "released"
    county_idx,           \* position of `for county in CALIFORNIA_COUNTIES`
    param_idx,            \* position of `for parameter in PARAMETERS.keys()`
    total_downloads,      \* the variable total_downloads
    completed_downloads,  \* the variable completed_downloads
    successful_downloads, \* the variable successful_downloads
    attempts,             \* history: the (county, parameter) pairs attempted
    county_files,         \* the names of the CSV files written
    last_return,          \* history: what the latest attempt returned
    quit_calls,           \* history: the number of driver.quit() calls
    used_released,        \* history: an attempt ran on a released driver
    spc                   \* position in main

svars == <<driver, county_idx, param_idx, total_downloads,
           completed_downloads, successful_downloads, attempts, county_files,
           last_return, quit_calls, used_released, spc>>

\* scripts/download_weather_data.py : module level and main
VARIABLES
    NOAA_TOKEN,         \* os.getenv('NOAA_API_TOKEN')
    output_dir_created, \* OUTPUT_DIR.mkdir has run
    startup_requests,   \* history: the requests of get_california_stations
                        \* and get_datasets
    stations_file,      \* california_weather_stations.csv was written
    tpc                 \* position in the script

tvars == <<NOAA_TOKEN, output_dir_created, startup_requests, stations_file,
           tpc>>

vars == <<wvars, dvars, mvars, pvars, svars, tvars>>

\* What a script leaves alone: the state of the other scripts.
wothers == <<dvars, mvars, pvars, svars, tvars>>
dothers == <<wvars, mvars, pvars, svars, tvars>>
mothers == <<wvars, dvars, pvars, svars, tvars>>
pothers == <<wvars, dvars, mvars, svars, tvars>>
sothers == <<wvars, dvars, mvars, pvars, tvars>>
tothers == <<dvars, mvars, pvars, svars>>

\* main() calls download_weather_data_yearly(start_year=2020, ...)
StartYear == 2020

\* datatypes = ['TMAX', 'TMIN', 'PRCP']
datatypes == <<"TMAX", "TMIN", "PRCP">>

\* time.sleep(0.3) and time.sleep(1), in tenths of a second
SleepAfterResponse == 3
SleepAfterException == 10

\* A file that was never written, and a CSV file holding the given rows.
NoFile == [written |-> FALSE, rows |-> <<>>]
CsvFile(rows) == [written |-> TRUE, rows |-> rows]

\* The four per-request outcomes.
OutcomeKinds == {"ok", "nodata", "status", "exc"}

\* pd.DataFrame(data['results']) for a reply of n records to (y, d)
DataFrame(y, d, n) == [k \in 1..n |-> <<y, d, k>>]

\* pd.concat(frames, ignore_index=True): the rows of the frames, in order
RECURSIVE Concat(_)
Concat(frames) ==
    IF frames = <<>> THEN <<>> ELSE Head(frames) \o Concat(Tail(frames))

\* range(start_year, end_year + 1) has a next element after y
AfterYear(y) == IF y + 1 > end_year THEN "combine" ELSE "request"

WStart ==
    /\ start_year = StartYear
    /\ end_year \in StartYear..(StartYear + MaxYears - 1)
    /\ year = start_year
    /\ dtype = 1
    /\ all_data = <<>>
    /\ total_records = 0
    /\ yearly_files = [y \in {} |-> NoFile]
    /\ combined_file = NoFile
    /\ requests = <<>>
    /\ last_outcome = "none"
    /\ ok_units = <<>>
    /\ sleeps = <<>>
    /\ wpc = IF start_year > end_year THEN "combine" ELSE "request"

\* What the try block appends to all_data for an outcome.
Accumulated(kind, df) == IF kind = "ok" THEN <<df>> ELSE <<>>

\* A buffer that is replaced by what a request fetched.
AppendedReplacing(buffer, frames) == IF frames = <<>> THEN buffer ELSE frames

\* all_data.append(df): the buffer after the frames of a request.
Appended(buffer, frames) == buffer \o frames

\* A loop that sleeps the same time after every request.
SleepForUniform(kind) == SleepAfterResponse

\* The sleep that follows a request with the given outcome.
SleepFor(kind) ==
    IF kind = "exc" THEN SleepAfterException ELSE SleepAfterResponse

\* A loop in which an exception ends the run instead of `continue`.
AfterRequestAbort(kind, i) ==
    IF kind = "exc" THEN "combine"
    ELSE IF i = Len(datatypes) THEN "save" ELSE "request"

\* Where the inner loop goes after the request for datatype index i.
AfterRequest(kind, i) == IF i = Len(datatypes) THEN "save" ELSE "request"

\* A loop that asks again for a datatype whose request raised.
NextDatatypeRetry(kind, i) ==
    IF kind = "exc" THEN i ELSE IF i = Len(datatypes) THEN 1 ELSE i + 1

\* The datatype index of the next iteration of the inner loop.
NextDatatype(kind, i) == IF i = Len(datatypes) THEN 1 ELSE i + 1

\* One iteration of `for datatype in datatypes`: the request, the handling
\* of its outcome and the sleep that follows.
Request(kind, n) ==
    /\ wpc = "request"
    /\ LET df == DataFrame(year, datatypes[dtype], n)
       IN /\ requests' = Append(requests, <<year, datatypes[dtype]>>)
          /\ last_outcome' = kind
          /\ ok_units' =
                IF kind = "ok"
                THEN Append(ok_units, [year |-> year,
                                       datatype |-> datatypes[dtype],
                                       df |-> df])
                ELSE ok_units
          /\ all_data' = Appended(all_data, Accumulated(kind, df))
          /\ total_records' =
                total_records + SumSeq([i \in 1..Len(Accumulated(kind, df)) |->
                                           Len(Accumulated(kind, df)[i])])
    /\ sleeps' = <<SleepFor(kind)>>
    /\ wpc' = AfterRequest(kind, dtype)
    /\ dtype' = NextDatatype(kind, dtype)
    /\ UNCHANGED <<start_year, end_year, year, yearly_files, combined_file>>
    /\ UNCHANGED wothers

\* A snapshot that holds only the frame fetched last.
SnapshotLastOnly(frames) == frames[Len(frames)]

\* The content written to the per-year file after a year's datatype loop.
Snapshot(frames) == Concat(frames)

\* `if len(all_data) > 0`: whether the per-year file is written.
WritesSnapshot(frames) == Len(frames) > 0

\* "Save yearly data as we go", then the next year of the range.
SaveYear ==
    /\ wpc = "save"
    /\ yearly_files' =
          IF WritesSnapshot(all_data)
          THEN [y \in DOMAIN yearly_files \cup {year} |->
                   IF y = year THEN CsvFile(Snapshot(all_data))
                   ELSE yearly_files[y]]
          ELSE yearly_files
    /\ wpc' = AfterYear(year)
    /\ year' = year + 1
    /\ UNCHANGED <<start_year, end_year, dtype, all_data, total_records,
                   combined_file, requests, last_outcome, ok_units, sleeps>>
    /\ UNCHANGED wothers

\* "Combine all years": the combined file, when anything was accumulated.
Combine ==
    /\ wpc = "combine"
    /\ combined_file' =
          IF all_data # <<>> THEN CsvFile(Concat(all_data)) ELSE NoFile
    /\ wpc' = "done"
    /\ UNCHANGED <<start_year, end_year, year, dtype, all_data, total_records,
                   yearly_files, requests, last_outcome, ok_units,
                   sleeps>>
    /\ UNCHANGED wothers

WNext ==
    \/ \E n \in 0..MaxRecs : Request("ok", n)
    \/ Request("nodata", 0)
    \/ Request("status", 0)
    \/ Request("exc", 0)
    \/ SaveYear
    \/ Combine

\* ======================================================================
\* Text: a Python str is a sequence of one-character strings
\* ======================================================================
DigitVal == [c \in {"0", "1", "2", "3", "4", "5", "6", "7", "8", "9"} |->
               CASE c = "0" -> 0 [] c = "1" -> 1 [] c = "2" -> 2 [] c = "3" -> 3
                 [] c = "4" -> 4 [] c = "5" -> 5 [] c = "6" -> 6 [] c = "7" -> 7
                 [] c = "8" -> 8 [] c = "9" -> 9]

DigitChar == <<"0", "1", "2", "3", "4", "5", "6", "7", "8", "9">>

IsDigit(c) == c \in DOMAIN DigitVal

\* Whitespace as str.strip() sees it (the newline that ends a line of the
\* file is whitespace too and is left out of the modelled lines).
IsSpace(c) == c = " "

\* str.strip()
Strip(s) ==
    LET solid == {i \in 1..Len(s) : ~IsSpace(s[i])}
    IN IF solid = {} THEN <<>>
       ELSE SubSeq(s, CHOOSE i \in solid : \A j \in solid : i <= j,
                      CHOOSE i \in solid : \A j \in solid : j <= i)

\* s[a:b] for 0 <= a <= b
Slice(s, a, b) == SubSeq(s, a + 1, IF b < Len(s) THEN b ELSE Len(s))

\* The number written by a string of decimal digits.
RECURSIVE DecNat(_)
DecNat(ds) ==
    IF ds = <<>> THEN 0
    ELSE 10 * DecNat(SubSeq(ds, 1, Len(ds) - 1)) + DigitVal[ds[Len(ds)]]

\* The decimal digits of a natural number.
RECURSIVE NatDec(_)
NatDec(n) ==
    IF n < 10 THEN <<DigitChar[n + 1]>>
    ELSE Append(NatDec(n \div 10), DigitChar[(n % 10) + 1])

\* int(str): surrounding whitespace, an optional sign, then digits only.
\* ok = FALSE stands for ValueError.
ParseInt(str) ==
    LET s == Strip(str)
        signed == s # <<>> /\ s[1] \in {"-", "+"}
        body == IF signed THEN Tail(s) ELSE s
    IN IF body # <<>> /\ \A i \in 1..Len(body) : IsDigit(body[i])
       THEN [ok |-> TRUE,
             val |-> IF signed /\ s[1] = "-" THEN 0 - DecNat(body)
                     ELSE DecNat(body)]
       ELSE [ok |-> FALSE, val |-> 0]

\* ======================================================================
\* Binary floating point: Python float is IEEE 754 double precision.
\* A double is [neg, m, e]: m is the 53-bit significand, most significant
\* bit first (<<>> for zero), and the value is (-1)^neg * m * 2^e.
\* ======================================================================
RECURSIVE NatBits(_)
NatBits(n) == IF n = 0 THEN <<>> ELSE Append(NatBits(n \div 2), n % 2)

RECURSIVE BitsNat(_)
BitsNat(b) ==
    IF b = <<>> THEN 0
    ELSE 2 * BitsNat(SubSeq(b, 1, Len(b) - 1)) + b[Len(b)]

Zeros(k) == [i \in 1..k |-> 0]

\* the bit string without its leading zeros
StripZeros(b) ==
    LET ones == {i \in 1..Len(b) : b[i] = 1}
    IN IF ones = {} THEN <<>>
       ELSE SubSeq(b, CHOOSE i \in ones : \A j \in ones : i <= j, Len(b))

\* the bit string plus one
Inc(b) ==
    LET zs == {i \in 1..Len(b) : b[i] = 0}
    IN IF zs = {} THEN <<1>> \o Zeros(Len(b))
       ELSE LET p == CHOOSE i \in zs : \A j \in zs : j <= i
            IN [i \in 1..Len(b) |->
                   IF i < p THEN b[i] ELSE IF i = p THEN 1 ELSE 0]

\* Long division and multiplication work on chunks of ChunkBits bits.
ChunkBits == 16
ChunkBase == 65536

RECURSIVE Pow2(_)
Pow2(k) == IF k = 0 THEN 1 ELSE 2 * Pow2(k - 1)

RECURSIVE Pow10(_)
Pow10(k) == IF k = 0 THEN 1 ELSE 10 * Pow10(k - 1)

ChunkToBits(c) == [i \in 1..ChunkBits |-> (c \div Pow2(ChunkBits - i)) % 2]

\* b, zero-extended on the left to whole chunks, as chunk values
Chunks(b) ==
    LET n == (Len(b) + ChunkBits - 1) \div ChunkBits
        p == Zeros(n * ChunkBits - Len(b)) \o b
    IN [c \in 1..n |->
           BitsNat(SubSeq(p, (c - 1) * ChunkBits + 1, c * ChunkBits))]

RECURSIVE LongDivFrom(_, _, _, _, _)
LongDivFrom(cs, d, i, r, q) ==
    IF i > Len(cs) THEN [q |-> q, r |-> r]
    ELSE LET t == ChunkBase * r + cs[i]
         IN LongDivFrom(cs, d, i + 1, t % d, q \o ChunkToBits(t \div d))

\* quotient bits and remainder of the number with bits b divided by d
LongDiv(b, d) == LongDivFrom(Chunks(b), d, 1, 0, <<>>)

RECURSIVE MulFrom(_, _, _, _, _)
MulFrom(cs, k, i, carry, out) ==
    IF i = 0 THEN NatBits(carry) \o out
    ELSE LET t == cs[i] * k + carry
         IN MulFrom(cs, k, i - 1, t \div ChunkBase,
                    ChunkToBits(t % ChunkBase) \o out)

\* bits of the number with bits b multiplied by k
MulBits(b, k) == MulFrom(Chunks(b), k, Len(Chunks(b)), 0, <<>>)

\* Width of the significand, and the extra quotient bits a division keeps
\* so that the rounding sees the exact result.
MantBits == 53
GuardBits == 70

FloatZero(neg) == [neg |-> neg, m |-> <<>>, e |-> 0]

\* The double nearest to b * 2^e (plus a little when sticky), ties to even.
RoundBits(neg, b, sticky, e) ==
    LET s == StripZeros(b)
        L == Len(s)
    IN IF L = 0 THEN FloatZero(neg)
       ELSE IF L <= MantBits
       THEN [neg |-> neg, m |-> s \o Zeros(MantBits - L),
             e |-> e - (MantBits - L)]
       ELSE LET head == SubSeq(s, 1, MantBits)
                st == sticky \/ \E i \in (MantBits + 2)..L : s[i] = 1
                up == s[MantBits + 1] = 1 /\ (st \/ head[MantBits] = 1)
                m0 == IF up THEN Inc(head) ELSE head
            IN IF Len(m0) > MantBits
               THEN [neg |-> neg, m |-> SubSeq(m0, 1, MantBits),
                     e |-> e + (L - MantBits) + 1]
               ELSE [neg |-> neg, m |-> m0, e |-> e + (L - MantBits)]

\* The double nearest to the decimal D / 10^s.
FromDecimal(neg, D, s) ==
    IF s = 0 THEN RoundBits(neg, NatBits(D), FALSE, 0)
    ELSE LET ld == LongDiv(NatBits(D) \o Zeros(GuardBits), Pow10(s))
         IN RoundBits(neg, ld.q, ld.r # 0, 0 - GuardBits)

\* x / d and x * k in double arithmetic, for small integers d and k
\* (which are doubles exactly).
FloatDiv(x, d) ==
    LET ld == LongDiv(x.m \o Zeros(GuardBits), d)
    IN RoundBits(x.neg, ld.q, ld.r # 0, x.e - GuardBits)

FloatMul(x, k) == RoundBits(x.neg, MulBits(x.m, k), FALSE, x.e)

\* The double that is exactly the integer n.
FloatOfInt(n) ==
    IF n < 0 THEN FromDecimal(TRUE, 0 - n, 0) ELSE FromDecimal(FALSE, n, 0)

\* The magnitude of x rounded to the nearest integer, ties to even.
RoundToNat(x) ==
    IF x.m = <<>> THEN 0
    ELSE IF x.e >= 0 THEN BitsNat(x.m \o Zeros(x.e))
    ELSE IF 0 - x.e > MantBits THEN 0
    ELSE LET n == MantBits + x.e
             ip == BitsNat(SubSeq(x.m, 1, n))
             st == \E i \in (n + 2)..MantBits : x.m[i] = 1
         IN IF x.m[n + 1] = 1 /\ (st \/ ip % 2 = 1) THEN ip + 1 ELSE ip

\* float(str) for a string without surrounding whitespace, over the
\* characters digits, sign, point, space and letters: an optional sign and
\* digits with at most one point and at least one digit.  ok = FALSE
\* stands for ValueError.
ParseFloat(s) ==
    LET signed == s # <<>> /\ s[1] \in {"-", "+"}
        body == IF signed THEN Tail(s) ELSE s
        points == {i \in 1..Len(body) : body[i] = "."}
        digits == SelectSeq(body, IsDigit)
        wellformed ==
            /\ \A i \in 1..Len(body) : IsDigit(body[i]) \/ body[i] = "."
            /\ Cardinality(points) <= 1
            /\ digits # <<>>
        scale == IF points = {} THEN 0
                 ELSE Len(body) - (CHOOSE i \in points : TRUE)
    IN IF wellformed
       THEN [ok |-> TRUE,
             val |-> FromDecimal(signed /\ s[1] = "-", DecNat(digits), scale)]
       ELSE [ok |-> FALSE, val |-> FloatZero(FALSE)]

\* ======================================================================
\* scripts/download_noaa_climate_divisions.py : process_climate_file
\* ======================================================================
\* `if len(line) < 68`, `line[:4]`, `line[4:8]`, `range(8, 68, 5)`,
\* `line[i:i+5]`, `/ 100.0`
LineWidth == 68
CodeWidth == 4
FieldsStart == 8
FieldWidth == 5
Scale == 100

Sentinel == <<"-", "9", "9", "9", "9">>

\* The keys of files_to_download that name a climate variable.
DataTypes == {"precipitation", "max_temperature", "min_temperature"}

\* A decoded monthly value: None, or a float.
NullValue == [isnull |-> TRUE, num |-> FloatZero(FALSE)]
Number(x) == [isnull |-> FALSE, num |-> x]

\* range(8, 68, 5)
FieldOffsets ==
    [k \in 1..((LineWidth - FieldsStart + FieldWidth - 1) \div FieldWidth) |->
        FieldsStart + FieldWidth * (k - 1)]

\* A decoder that takes the sentinel for the number it spells.
DecodeFieldNoSentinel(value_str) ==
    IF value_str # <<>>
    THEN LET p == ParseFloat(value_str)
         IN IF p.ok THEN Number(FloatDiv(p.val, Scale)) ELSE NullValue
    ELSE NullValue

\* A decoder that leaves out the division by 100.
DecodeFieldUnscaled(value_str) ==
    IF value_str # <<>> /\ value_str # Sentinel
    THEN LET p == ParseFloat(value_str)
         IN IF p.ok THEN Number(p.val) ELSE NullValue
    ELSE NullValue

\* The value appended to monthly_values for a trimmed field.
DecodeField(value_str) ==
    IF value_str # <<>> /\ value_str # Sentinel
    THEN LET p == ParseFloat(value_str)
         IN IF p.ok THEN Number(FloatDiv(p.val, Scale)) ELSE NullValue
    ELSE NullValue

SkippedLine ==
    [skipped |-> TRUE, raised |-> FALSE, division_code |-> <<>>, year |-> 0,
     monthly_values |-> <<>>]

RaisingLine ==
    [skipped |-> FALSE, raised |-> TRUE, division_code |-> <<>>, year |-> 0,
     monthly_values |-> <<>>]

\* A length check that lets lines of any length through.
TooShortNever(line) == FALSE

\* `if len(line) < 68: continue`
TooShort(line) == Len(line) < LineWidth

\* The body of `for line in file` up to the monthly values: the line is
\* skipped, or int() raises on the year, or it is decoded.
DecodeLine(raw) ==
    LET line == Strip(raw)
    IN IF TooShort(line) THEN SkippedLine
       ELSE LET yr == ParseInt(Slice(line, CodeWidth, FieldsStart))
            IN IF ~yr.ok THEN RaisingLine
               ELSE [skipped |-> FALSE, raised |-> FALSE,
                     division_code |-> Strip(Slice(line, 0, CodeWidth)),
                     year |-> yr.val,
                     monthly_values |->
                        [k \in DOMAIN FieldOffsets |->
                            DecodeField(Strip(Slice(line, FieldOffsets[k],
                                              FieldOffsets[k] + FieldWidth)))]]

\* "Create records for each month": enumerate(monthly_values, 1)
LineRecords(dec, dt) ==
    [k \in 1..Len(dec.monthly_values) |->
        [division_code |-> dec.division_code, year |-> dec.year, month |-> k,
         variable |-> dt, value |-> dec.monthly_values[k]]]

\* ---- the lines given to the decoder
Blank == <<" ", " ", " ", " ", " ">>
Text150 == <<" ", " ", "1", "5", "0">>
Text29 == <<" ", " ", " ", "2", "9">>
Text0 == <<" ", " ", " ", " ", "0">>
TextMinus125 == <<" ", "-", "1", "2", "5">>
Text99999 == <<"9", "9", "9", "9", "9">>
Text57 == <<" ", " ", " ", "5", "7">>
TextLeadingZeros == <<"0", "0", "1", "5", "0">>
TextDecimal == <<" ", "1", ".", "5", " ">>
TextPlus == <<" ", "+", "2", "5", "0">>
TextLetters == <<"1", "2", "x", "4", "5">>
TextLoneSign == <<" ", " ", "-", " ", " ">>
TextInnerSpace == <<" ", "1", " ", "5", "0">>

\* Integers, the sentinel and the empty field.
FieldTexts == <<Text150, Sentinel, Blank, Text29, Text0, TextMinus125>>

Division == <<"0", "4", "0", "1">>

RECURSIVE Flatten(_)
Flatten(ss) == IF ss = <<>> THEN <<>> ELSE Head(ss) \o Flatten(Tail(ss))

MkLine(code, yr, fields) == code \o yr \o Flatten(fields)

Year2020 == <<"2", "0", "2", "0">>

\* Line k holds the field texts rotated by k - 1 places, so that every text
\* occurs in every month position, the last one included.
RotatedLine(k) ==
    MkLine(Division, Year2020,
           [i \in DOMAIN FieldOffsets |->
               FieldTexts[((i + k - 2) % Len(FieldTexts)) + 1]])

PlainLine(yr) == MkLine(Division, yr, [i \in DOMAIN FieldOffsets |-> Text150])

YearLines ==
    {PlainLine(yr) : yr \in {<<"1", "9", "9", "9">>, <<"2", "0", "0", "0">>,
                             <<"2", "0", "2", "5">>, <<"2", "0", "2", "6">>}}

BadYearLine == PlainLine(<<"2", "0", "x", "0">>)

\* A line of plain integers and sentinels only.
IntegerLine ==
    MkLine(Division, Year2020,
           <<Text150, Sentinel, Text29, Text0, TextMinus125, Text99999, Text57,
             Text150, Sentinel, Text29, Text0, Text57>>)

\* A line with fields that are not plain integers.
OddLine ==
    MkLine(Division, Year2020,
           <<Text150, TextLeadingZeros, TextDecimal, TextPlus, TextLetters,
             TextLoneSign, TextInnerSpace, Blank, Sentinel, Text29, Text0,
             Text150>>)

\* A line whose last field is not a number and ends in spaces.
OddLastLine ==
    MkLine(Division, Year2020,
           [i \in DOMAIN FieldOffsets |->
               IF i = Len(FieldOffsets) THEN TextLoneSign ELSE Text150])

ShapeLines ==
    { <<>>,
      SubSeq(PlainLine(Year2020), 1, FieldsStart),
      SubSeq(PlainLine(Year2020), 1, LineWidth - 1),
      <<" ">> \o PlainLine(Year2020),
      PlainLine(Year2020) \o <<" ", "e", "n", "d">> }

Lines ==
    {RotatedLine(k) : k \in 1..Len(FieldTexts)}
       \cup YearLines \cup {BadYearLine, IntegerLine, OddLine, OddLastLine}
       \cup ShapeLines

\* Every line is decoded once; the loop looks the result up.
LineDecoding == [l \in Lines |-> DecodeLine(l)]

NotReturned == [kind |-> "pending", rows |-> <<>>]
None == [kind |-> "none", rows |-> <<>>]
\* pd.DataFrame(data)
FrameOf(records) == [kind |-> "frame", rows |-> records]

DStart ==
    /\ data_type \in DataTypes
    /\ lines_read = <<>>
    /\ line_records = <<>>
    /\ data = <<>>
    /\ pf_result = NotReturned
    /\ dpc = "open"

\* `with open(filepath, 'r') as file`: an I/O error returns None.
OpenFile(ok) ==
    /\ dpc = "open"
    /\ dpc' = IF ok THEN "loop" ELSE "returned"
    /\ pf_result' = IF ok THEN pf_result ELSE None
    /\ UNCHANGED <<data_type, lines_read, line_records, data>>
    /\ UNCHANGED dothers

\* What one iteration of `for line in file` leaves in data, and whether it
\* raised.
Step(records, raw, dt) ==
    LET dec == LineDecoding[raw]
    IN [raised |-> dec.raised,
        added |-> IF dec.raised THEN <<>> ELSE LineRecords(dec, dt),
        data |-> IF dec.raised THEN records
                 ELSE records \o LineRecords(dec, dt)]

\* One iteration of `for line in file`; an exception returns None.
ReadLine(raw) ==
    /\ dpc = "loop"
    /\ Len(lines_read) < MaxLines
    /\ LET st == Step(data, raw, data_type)
       IN /\ lines_read' = Append(lines_read, raw)
          /\ line_records' = st.added
          /\ data' = st.data
          /\ dpc' = IF st.raised THEN "returned" ELSE "loop"
          /\ pf_result' = IF st.raised THEN None ELSE pf_result
    /\ UNCHANGED data_type
    /\ UNCHANGED dothers

\* The file is exhausted: `return pd.DataFrame(data)`.
EndOfFile ==
    /\ dpc = "loop"
    /\ dpc' = "returned"
    /\ pf_result' = FrameOf(data)
    /\ UNCHANGED <<data_type, lines_read, line_records, data>>
    /\ UNCHANGED dothers

DNext ==
    \/ \E ok \in BOOLEAN : OpenFile(ok)
    \/ \E raw \in Lines : ReadLine(raw)
    \/ EndOfFile

\* A decoder that keeps the records read before the line that raised.
RECURSIVE ProcessLinesKeep(_, _, _)
ProcessLinesKeep(records, lines, dt) ==
    IF lines = <<>> THEN FrameOf(records)
    ELSE LET st == Step(records, Head(lines), dt)
         IN IF st.raised THEN FrameOf(records)
            ELSE ProcessLinesKeep(st.data, Tail(lines), dt)

\* process_climate_file as a function of the file's lines.
RECURSIVE ProcessLines(_, _, _)
ProcessLines(records, lines, dt) ==
    IF lines = <<>> THEN FrameOf(records)
    ELSE LET st == Step(records, Head(lines), dt)
         IN IF st.raised THEN None ELSE ProcessLines(st.data, Tail(lines), dt)

ProcessClimateFile(readable, lines, dt) ==
    IF readable THEN ProcessLines(<<>>, lines, dt) ELSE None

\* ======================================================================
\* scripts/download_noaa_climate_divisions.py : main
\* ======================================================================
\* The keys of files_to_download, in dict order.
files_to_download ==
    <<"precipitation", "max_temperature", "min_temperature", "readme">>

\* merged_df[(merged_df['year'] >= 2000) & (merged_df['year'] <= 2025)]
YearFrom == 2000
YearTo == 2025

\* The lines a downloaded variable file may hold.
MainLines == YearLines \cup {BadYearLine}

RECURSIVE SeqsOfLen(_, _)
SeqsOfLen(S, n) ==
    IF n = 0 THEN {<<>>}
    ELSE {Append(q, x) : q \in SeqsOfLen(S, n - 1), x \in S}

SeqsUpTo(S, n) == UNION {SeqsOfLen(S, k) : k \in 0..n}

BagOfSeq(q) == [x \in Range(q) |-> Cardinality({i \in DOMAIN q : q[i] = x})]

\* A DataFrame of main: whether it has the columns division_code, year and
\* month, the variable columns it has, and its rows.  The order of the rows
\* is left out: rows is a bag.
\* pd.DataFrame([]) has no columns at all.
EmptyFrame == [keyed |-> FALSE, columns |-> {}, rows |-> EmptyBag]

Key(r) == <<r.division_code, r.year, r.month>>

\* A record of process_climate_file as a row: the value sits in the column
\* named after the variable.
RowOf(rec) ==
    [division_code |-> rec.division_code, year |-> rec.year,
     month |-> rec.month, vals |-> (rec.variable :> rec.value)]

\* pd.DataFrame(data), data being the list of records of one file.
TableOf(frame, dt) ==
    IF frame.rows = <<>> THEN EmptyFrame
    ELSE [keyed |-> TRUE, columns |-> {dt},
          rows |-> BagOfSeq([i \in DOMAIN frame.rows |-> RowOf(frame.rows[i])])]

KeysOf(T) == {Key(r) : r \in BagToSet(T.rows)}

\* One side of the join at key k: the table's rows with that key, or, when
\* it has none, a single row of nulls.
SideAt(T, k) ==
    IF k \in KeysOf(T)
    THEN [r \in {x \in BagToSet(T.rows) : Key(x) = k} |-> CopiesIn(r, T.rows)]
    ELSE [division_code |-> k[1], year |-> k[2], month |-> k[3],
          vals |-> [c \in T.columns |-> NullValue]] :> 1

Joined(l, r) ==
    [division_code |-> l.division_code, year |-> l.year, month |-> l.month,
     vals |-> l.vals @@ r.vals]

\* The keys of an inner join.
JoinKeysInner(L, R) == KeysOf(L) \cap KeysOf(R)

\* how='outer'
JoinKeys(L, R) == KeysOf(L) \cup KeysOf(R)

\* pd.merge(L, R, on=['division_code', 'year', 'month'], how='outer') for
\* tables that have the key columns: at every key, each row of L with each
\* row of R.
Merge(L, R) ==
    LET pairs == UNION {{<<l, r>> : l \in DOMAIN SideAt(L, k),
                                    r \in DOMAIN SideAt(R, k)} :
                            k \in JoinKeys(L, R)}
        count(j) == LET p == CHOOSE p \in pairs : Joined(p[1], p[2]) = j
                    IN SideAt(L, Key(j))[p[1]] * SideAt(R, Key(j))[p[2]]
    IN [keyed |-> TRUE, columns |-> L.columns \cup R.columns,
        rows |-> [j \in {Joined(p[1], p[2]) : p \in pairs} |-> count(j)]]

\* `for df in processed_dfs[1:]: merged_df = pd.merge(merged_df, df, ...)`;
\* pd.merge raises KeyError when a table lacks a key column.
RECURSIVE MergeFrom(_, _)
MergeFrom(acc, rest) ==
    IF rest = <<>> THEN [raised |-> FALSE, table |-> acc]
    ELSE IF ~acc.keyed \/ ~Head(rest).keyed THEN [raised |-> TRUE, table |-> acc]
    ELSE MergeFrom(Merge(acc, Head(rest)), Tail(rest))

\* A filter that leaves out the two end years.
InRangeExclusive(y) == YearFrom < y /\ y < YearTo

\* (merged_df['year'] >= 2000) & (merged_df['year'] <= 2025)
InRange(y) == YearFrom <= y /\ y <= YearTo

Filtered(rows) == [r \in {x \in BagToSet(rows) : InRange(x.year)} |-> rows[r]]

\* pd.to_datetime(merged_df[['year', 'month']].assign(day=1))
WithDate(r) == r @@ [date |-> <<r.year, r.month, 1>>]

WithDates(rows) ==
    [d \in {WithDate(r) : r \in BagToSet(rows)} |->
        rows[CHOOSE r \in BagToSet(rows) : WithDate(r) = d]]

LinesUsed ==
    SumSeq([i \in DOMAIN downloaded_files |-> Len(downloaded_files[i].lines)])

\* What a download may leave on disk.
FileContents(ok) ==
    IF ok /\ file_idx \in DOMAIN files_to_download
          /\ files_to_download[file_idx] \in DataTypes
    THEN SeqsUpTo(MainLines, MaxTotalLines - LinesUsed)
    ELSE {<<>>}

Failure(stage, dt) == [stage |-> stage, data_type |-> dt]

MStart ==
    /\ file_idx = 1
    /\ downloaded_files = <<>>
    /\ proc_idx = 1
    /\ processed_dfs = <<>>
    /\ merged_df = EmptyFrame
    /\ merge_result = EmptyFrame
    /\ processed_csv = NoFile
    /\ reported = {}
    /\ mpc = "download"

\* One iteration of `for data_type, filename in files_to_download.items()`:
\* download_file returns True, or prints the error and returns False.
Download(ok) ==
    /\ mpc = "download"
    /\ \E content \in FileContents(ok) :
          LET dt == files_to_download[file_idx]
          IN /\ downloaded_files' =
                   IF ok THEN Append(downloaded_files,
                                     [data_type |-> dt, lines |-> content])
                   ELSE downloaded_files
             /\ reported' = IF ok THEN reported
                            ELSE reported \cup {Failure("download", dt)}
    /\ file_idx' = file_idx + 1
    /\ mpc' = IF file_idx < Len(files_to_download) THEN "download"
              ELSE "process"
    /\ UNCHANGED <<proc_idx, processed_dfs, merged_df, merge_result,
                   processed_csv>>
    /\ UNCHANGED mothers

\* One iteration of `for data_type, filepath in downloaded_files.items()`.
Process(readable) ==
    /\ mpc = "process"
    /\ proc_idx <= Len(downloaded_files)
    /\ LET f == downloaded_files[proc_idx]
           df == ProcessClimateFile(readable, f.lines, f.data_type)
       IN IF f.data_type = "readme"
          THEN UNCHANGED <<processed_dfs, reported>>
          ELSE IF df # None
          THEN /\ processed_dfs' =
                     Append(processed_dfs, TableOf(df, f.data_type))
               /\ UNCHANGED reported
          ELSE /\ reported' = reported \cup {Failure("process", f.data_type)}
               /\ UNCHANGED processed_dfs
    /\ proc_idx' = proc_idx + 1
    /\ UNCHANGED <<file_idx, downloaded_files, merged_df, merge_result,
                   processed_csv, mpc>>
    /\ UNCHANGED mothers

\* `if processed_dfs:` and the merge loop; a KeyError ends main.
MergeAll ==
    /\ mpc = "process"
    /\ proc_idx > Len(downloaded_files)
    /\ IF processed_dfs = <<>>
       THEN /\ mpc' = "done"
            /\ reported' = reported \cup {Failure("merge", "none")}
            /\ UNCHANGED <<merged_df, merge_result>>
       ELSE LET m == MergeFrom(processed_dfs[1], Tail(processed_dfs))
            IN /\ merged_df' = m.table
               /\ merge_result' = m.table
               /\ mpc' = IF m.raised THEN "crashed" ELSE "filter"
               /\ UNCHANGED reported
    /\ UNCHANGED <<file_idx, downloaded_files, proc_idx, processed_dfs,
                   processed_csv>>
    /\ UNCHANGED mothers

\* The year filter, the date column and to_csv; merged_df['year'] raises
\* KeyError on a table without columns.
Save ==
    /\ mpc = "filter"
    /\ IF ~merged_df.keyed
       THEN /\ mpc' = "crashed"
            /\ UNCHANGED <<merged_df, processed_csv>>
       ELSE LET out == WithDates(Filtered(merged_df.rows))
            IN /\ merged_df' = [merged_df EXCEPT !.rows = out]
               /\ processed_csv' = CsvFile(out)
               /\ mpc' = "done"
    /\ UNCHANGED <<file_idx, downloaded_files, proc_idx, processed_dfs,
                   merge_result, reported>>
    /\ UNCHANGED mothers

MNext ==
    \/ \E ok \in BOOLEAN : Download(ok)
    \/ \E readable \in BOOLEAN : Process(readable)
    \/ MergeAll
    \/ Save

\* ======================================================================
\* scripts/download_population_data.py
\* ======================================================================
\* years = [2000, 2010, 2015, 2020, 2022, 2024]
years == <<2000, 2010, 2015, 2020, 2022, 2024>>

\* `if year >= 2010` and the vintage in the ACS base_url
AcsFrom == 2010
AcsVintage == 2022

\* get_california_counties(), inverted: county FIPS code -> county name.
california_counties ==
    "001" :> "Alameda" @@ "003" :> "Alpine" @@ "005" :> "Amador" @@
    "007" :> "Butte" @@ "009" :> "Calaveras" @@ "011" :> "Colusa" @@
    "013" :> "Contra Costa" @@ "015" :> "Del Norte" @@
    "017" :> "El Dorado" @@ "019" :> "Fresno" @@ "021" :> "Glenn" @@
    "023" :> "Humboldt" @@ "025" :> "Imperial" @@ "027" :> "Inyo" @@
    "029" :> "Kern" @@ "031" :> "Kings" @@ "033" :> "Lake" @@
    "035" :> "Lassen" @@ "037" :> "Los Angeles" @@ "039" :> "Madera" @@
    "041" :> "Marin" @@ "043" :> "Mariposa" @@ "045" :> "Mendocino" @@
    "047" :> "Merced" @@ "049" :> "Modoc" @@ "051" :> "Mono" @@
    "053" :> "Monterey" @@ "055" :> "Napa" @@ "057" :> "Nevada" @@
    "059" :> "Orange" @@ "061" :> "Placer" @@ "063" :> "Plumas" @@
    "065" :> "Riverside" @@ "067" :> "Sacramento" @@ "069" :> "San Benito" @@
    "071" :> "San Bernardino" @@ "073" :> "San Diego" @@
    "075" :> "San Francisco" @@ "077" :> "San Joaquin" @@
    "079" :> "San Luis Obispo" @@ "081" :> "San Mateo" @@
    "083" :> "Santa Barbara" @@ "085" :> "Santa Clara" @@
    "087" :> "Santa Cruz" @@ "089" :> "Shasta" @@ "091" :> "Sierra" @@
    "093" :> "Siskiyou" @@ "095" :> "Solano" @@ "097" :> "Sonoma" @@
    "099" :> "Stanislaus" @@ "101" :> "Sutter" @@ "103" :> "Tehama" @@
    "105" :> "Trinity" @@ "107" :> "Tulare" @@ "109" :> "Tuolumne" @@
    "111" :> "Ventura" @@ "113" :> "Yolo" @@ "115" :> "Yuba"

\* A request whose ACS URL is built from the year.
CensusRequestByYear(y) ==
    IF y >= AcsFrom
    THEN [url |-> <<"https://api.census.gov/data", y, "acs/acs5">>,
          get |-> "B01003_001E,B01001_002E,B01001_026E",
          for |-> "county:*", in |-> "state:06"]
    ELSE [url |-> <<"https://api.census.gov/data", y, "dec/pl">>,
          get |-> "P001001,P002002,P002026",
          for |-> "county:*", in |-> "state:06"]

\* The URL and the query parameters of the request for a year.
CensusRequest(y) ==
    IF y >= AcsFrom
    THEN [url |-> <<"https://api.census.gov/data", AcsVintage, "acs/acs5">>,
          get |-> "B01003_001E,B01001_002E,B01001_026E",
          for |-> "county:*", in |-> "state:06"]
    ELSE [url |-> <<"https://api.census.gov/data", y, "dec/pl">>,
          get |-> "P001001,P002002,P002026",
          for |-> "county:*", in |-> "state:06"]

\* A cell of the JSON response: a string, or null.
Str(t) == [isnull |-> FALSE, text |-> t]
JsonNull == [isnull |-> TRUE, text |-> <<>>]

\* A numeric value of a DataFrame column, or NaN.
NaN == [isnull |-> TRUE, int |-> 0]
IntValue(n) == [isnull |-> FALSE, int |-> n]

\* A coercion that turns what it cannot parse into 0.
ToNumericZero(cell) ==
    IF cell.isnull THEN IntValue(0)
    ELSE LET p == ParseInt(cell.text)
         IN IF p.ok THEN IntValue(p.val) ELSE IntValue(0)

\* pd.to_numeric(..., errors='coerce') on one cell: null and text that is
\* not a number become NaN.  The cells of the model spell integers or no
\* number at all, and on those to_numeric reads what int() reads.
ToNumeric(cell) ==
    IF cell.isnull THEN NaN
    ELSE LET p == ParseInt(cell.text)
         IN IF p.ok THEN IntValue(p.val) ELSE NaN

population_cols ==
    <<"total_population", "male_population", "female_population">>

\* One row of the response after the rename, the year column, the numeric
\* conversion and the county name lookup (NaN for an unknown code).
CensusRow(raw, y) ==
    [total_population |-> ToNumeric(raw.total_population),
     male_population |-> ToNumeric(raw.male_population),
     female_population |-> ToNumeric(raw.female_population),
     state_fips |-> raw.state,
     county_fips |-> raw.county,
     year |-> y,
     county_name |-> IF raw.county \in DOMAIN california_counties
                     THEN Str(california_counties[raw.county])
                     ELSE JsonNull]

\* The DataFrame download_census_data builds from data[1:].
CensusFrame(rows, y) == [i \in DOMAIN rows |-> CensusRow(rows[i], y)]

IntText(n) == IF n < 0 THEN <<"-">> \o NatDec(0 - n) ELSE NatDec(n)

\* A column that holds a NaN is a float column.
IsFloatColumn(df, col) == \E i \in DOMAIN df : df[i][col].isnull

\* to_csv on a numeric cell: empty for NaN, the integer in an integer
\* column, the integer followed by ".0" in a float column.
NumberText(v, float) ==
    IF v.isnull THEN <<>>
    ELSE IF float THEN IntText(v.int) \o <<".", "0">>
    ELSE IntText(v.int)

\* df.to_csv(filename, index=False): the rows as texts.
ToCsv(df) ==
    [i \in DOMAIN df |->
        [total_population |->
            NumberText(df[i].total_population,
                       IsFloatColumn(df, "total_population")),
         male_population |->
            NumberText(df[i].male_population,
                       IsFloatColumn(df, "male_population")),
         female_population |->
            NumberText(df[i].female_population,
                       IsFloatColumn(df, "female_population")),
         state_fips |-> df[i].state_fips,
         county_fips |-> df[i].county_fips,
         year |-> IntText(df[i].year),
         county_name |-> IF df[i].county_name.isnull THEN ""
                         ELSE df[i].county_name.text]]

\* ---- the responses of the Census API
Digits39000 == <<"3", "9", "0", "0", "0">>
Digits19000 == <<"1", "9", "0", "0", "0">>
Digits20000 == <<"2", "0", "0", "0", "0">>
TextNA == <<"N", "/", "A">>

ApiRow(total, male, female, county) ==
    [total_population |-> total, male_population |-> male,
     female_population |-> female, state |-> "06", county |-> county]

RowNumeric == ApiRow(Str(Digits39000), Str(Digits19000), Str(Digits20000), "001")

\* Rows with a population field that is no number, and a row of a county
\* code the table does not have.
OddRows ==
    { ApiRow(Str(TextNA), Str(Digits19000), Str(Digits20000), "037"),
      ApiRow(Str(Digits39000), JsonNull, Str(Digits20000), "037"),
      ApiRow(Str(Digits39000), Str(Digits19000), Str(<<>>), "037"),
      ApiRow(Str(TextNA), JsonNull, Str(<<>>), "037"),
      ApiRow(Str(Digits39000), Str(Digits19000), Str(Digits20000), "999") }

OddRowsUsed ==
    Cardinality({<<i, j>> \in (DOMAIN pop_responses) \X (1..2) :
                    /\ j <= Len(pop_responses[i].rows)
                    /\ pop_responses[i].rows[j] \in OddRows})

\* The rows a successful response may hold: the API answers with a row per
\* county.
ResponseRows ==
    {<<RowNumeric>>}
       \cup (IF OddRowsUsed < MaxOddRows
             THEN {<<RowNumeric, r>> : r \in OddRows}
             ELSE {})

\* How a request ends: with rows, with a RequestException, or with another
\* exception inside the try block.
CensusOutcomes == {"ok", "request_error", "unexpected"}

PStart ==
    /\ year_idx = 1
    /\ pop_all_data = <<>>
    /\ pop_year_files = [y \in {} |-> NoFile]
    /\ pop_combined_file = NoFile
    /\ pop_requests = <<>>
    /\ pop_responses = <<>>
    /\ pop_reported = {}
    /\ pop_result = NotReturned
    /\ ppc = "loop"

\* What download_census_data returns for a year and an outcome.
CensusResult(kind, rows, y) ==
    IF kind = "ok" THEN FrameOf(CensusFrame(rows, y)) ELSE None

\* One iteration of `for year in years`: download_census_data, which
\* returns the DataFrame after writing the year's CSV, or prints the error
\* and returns None; then the append.
DownloadCensusData(kind) ==
    /\ ppc = "loop"
    /\ year_idx <= Len(years)
    /\ \E rows \in (IF kind = "ok" THEN ResponseRows ELSE {<<>>}) :
          LET y == years[year_idx]
              df == CensusResult(kind, rows, y)
          IN /\ pop_requests' = Append(pop_requests, CensusRequest(y))
             /\ pop_responses' =
                   Append(pop_responses,
                          [year |-> y, kind |-> kind, rows |-> rows])
             /\ pop_year_files' =
                   IF df # None
                   THEN [z \in DOMAIN pop_year_files \cup {y} |->
                            IF z = y THEN CsvFile(ToCsv(df.rows))
                            ELSE pop_year_files[z]]
                   ELSE pop_year_files
             /\ pop_reported' = IF df # None THEN pop_reported
                                ELSE pop_reported \cup {y}
             /\ pop_all_data' = IF df # None THEN Append(pop_all_data, df.rows)
                                ELSE pop_all_data
    /\ year_idx' = year_idx + 1
    /\ UNCHANGED <<pop_combined_file, pop_result, ppc>>
    /\ UNCHANGED pothers

\* A concatenation that keeps the first frame only.
ConcatFramesFirst(frames) == Head(frames)

\* pd.concat(all_data, ignore_index=True)
RECURSIVE ConcatFrames(_)
ConcatFrames(frames) ==
    IF frames = <<>> THEN <<>> ELSE Head(frames) \o ConcatFrames(Tail(frames))

\* After the loop: the combined CSV, or None when all_data is empty.
CombineYears ==
    /\ ppc = "loop"
    /\ year_idx > Len(years)
    /\ IF pop_all_data # <<>>
       THEN LET combined_df == ConcatFrames(pop_all_data)
            IN /\ pop_combined_file' = CsvFile(ToCsv(combined_df))
               /\ pop_result' = FrameOf(combined_df)
       ELSE /\ pop_result' = None
            /\ UNCHANGED pop_combined_file
    /\ ppc' = "done"
    /\ UNCHANGED <<year_idx, pop_all_data, pop_year_files, pop_requests,
                   pop_responses, pop_reported>>
    /\ UNCHANGED pothers

PNext ==
    \/ \E kind \in CensusOutcomes : DownloadCensusData(kind)
    \/ CombineYears

\* ======================================================================
\* scripts/download_county_weather_selenium.py
\* ======================================================================
\* PARAMETERS, its keys in dict order
PARAMETERS ==
    [k \in {"Average Temperature", "Maximum Temperature",
            "Minimum Temperature", "Precipitation"} |->
        CASE k = "Average Temperature" -> "tavg"
          [] k = "Maximum Temperature" -> "tmax"
          [] k = "Minimum Temperature" -> "tmin"
          [] k = "Precipitation" -> "pcp"]

ParameterKeys ==
    <<"Average Temperature", "Maximum Temperature", "Minimum Temperature",
      "Precipitation">>

START_YEAR == 2000
END_YEAR == 2025

CALIFORNIA_COUNTIES ==
    <<"Alameda", "Los Angeles", "Orange", "Riverside", "San Bernardino",
      "San Diego", "Fresno", "Kern", "Sacramento", "Contra Costa",
      "Santa Clara", "Ventura", "San Francisco", "San Joaquin", "Stanislaus",
      "Tulare", "Sonoma", "Solano">>

\* The counties of a run: the first MaxCounties of the list.
Counties ==
    SubSeq(CALIFORNIA_COUNTIES, 1,
           IF MaxCounties < Len(CALIFORNIA_COUNTIES) THEN MaxCounties
           ELSE Len(CALIFORNIA_COUNTIES))

\* county.replace(' ', '_').lower(), county by county
FileStem ==
    "Alameda" :> "alameda" @@ "Los Angeles" :> "los_angeles" @@
    "Orange" :> "orange" @@ "Riverside" :> "riverside" @@
    "San Bernardino" :> "san_bernardino" @@ "San Diego" :> "san_diego" @@
    "Fresno" :> "fresno" @@ "Kern" :> "kern" @@
    "Sacramento" :> "sacramento" @@ "Contra Costa" :> "contra_costa" @@
    "Santa Clara" :> "santa_clara" @@ "Ventura" :> "ventura" @@
    "San Francisco" :> "san_francisco" @@ "San Joaquin" :> "san_joaquin" @@
    "Stanislaus" :> "stanislaus" @@ "Tulare" :> "tulare" @@
    "Sonoma" :> "sonoma" @@ "Solano" :> "solano"

\* f"{stem}_{param_code}_{start_year}_{end_year}.csv"
CountyFilename(county, parameter) ==
    <<FileStem[county], PARAMETERS[parameter], START_YEAR, END_YEAR, "csv">>

\* How download_county_parameter ends:
\*   "ok"        the CSV link was found and answered 200: file written, True
\*   "status"    the CSV link answered another status: False
\*   "no_link"   an exception inside the inner try: False
\*   "page"      an exception before the inner try: False
\*   "interrupt" a BaseException such as KeyboardInterrupt, which neither
\*               `except Exception` catches
AttemptOutcomes == {"ok", "status", "no_link", "page", "interrupt"}

Returned(kind) == kind = "ok"

SStart ==
    /\ driver = "unset"
    /\ county_idx = 1
    /\ param_idx = 1
    /\ total_downloads = 0
    /\ completed_downloads = 0
    /\ successful_downloads = 0
    /\ attempts = <<>>
    /\ county_files = {}
    /\ last_return = "none"
    /\ quit_calls = 0
    /\ used_released = FALSE
    /\ spc = "setup"

\* A main that goes on without a driver.
AfterSetupIgnore(started) == "loop"

\* `if not driver: return`
AfterSetup(started) == IF started THEN "loop" ELSE "returned"

\* setup_driver, the test of its result and the assignments that open the
\* try block.
SetupDriver(started) ==
    /\ spc = "setup"
    /\ driver' = IF started THEN "session" ELSE "none"
    /\ spc' = AfterSetup(started)
    /\ total_downloads' = IF AfterSetup(started) = "loop"
                          THEN Len(Counties) * Len(ParameterKeys)
                          ELSE total_downloads
    /\ UNCHANGED <<county_idx, param_idx, completed_downloads,
                   successful_downloads, attempts, county_files, last_return,
                   quit_calls, used_released>>
    /\ UNCHANGED sothers

\* An exception that is not caught inside the try block leaves main
\* without passing through the finally clause.
OnExceptionNoFinally == "raised"

\* `finally:` an exception that leaves the try block runs the cleanup.
OnException == "finally_raising"

\* A loop that repeats the pair whose download failed.
NextPairRetry(kind) ==
    IF kind # "ok" THEN <<county_idx, param_idx>>
    ELSE IF param_idx < Len(ParameterKeys) THEN <<county_idx, param_idx + 1>>
    ELSE <<county_idx + 1, 1>>

\* The pair the two nested for loops go to next.
NextPair(kind) ==
    IF param_idx < Len(ParameterKeys) THEN <<county_idx, param_idx + 1>>
    ELSE <<county_idx + 1, 1>>

\* One iteration of the inner loop: download_county_parameter, the two
\* counters, the sleep.
Attempt(kind) ==
    /\ spc = "loop"
    /\ county_idx <= Len(Counties)
    /\ LET county == Counties[county_idx]
           parameter == ParameterKeys[param_idx]
       IN /\ attempts' = Append(attempts, <<county, parameter>>)
          /\ used_released' = (used_released \/ driver = "released")
          /\ county_files' =
                IF kind = "ok" /\ driver = "session"
                THEN county_files \cup {CountyFilename(county, parameter)}
                ELSE county_files
          /\ IF kind = "interrupt"
             THEN /\ spc' = OnException
                  /\ UNCHANGED <<county_idx, param_idx, completed_downloads,
                                 successful_downloads, last_return>>
             ELSE /\ last_return' = (Returned(kind) /\ driver = "session")
                  /\ successful_downloads' =
                        IF Returned(kind) /\ driver = "session"
                        THEN successful_downloads + 1
                        ELSE successful_downloads
                  /\ completed_downloads' = completed_downloads + 1
                  /\ county_idx' = NextPair(kind)[1]
                  /\ param_idx' = NextPair(kind)[2]
                  /\ spc' = IF NextPair(kind)[1] > Len(Counties)
                            THEN "summary" ELSE "loop"
    /\ UNCHANGED <<driver, total_downloads, quit_calls>>
    /\ UNCHANGED sothers

\* The download summary, which ends the try block.
Summary(interrupted) ==
    /\ spc = "summary"
    /\ spc' = IF interrupted THEN OnException ELSE "finally"
    /\ UNCHANGED <<driver, county_idx, param_idx, total_downloads,
                   completed_downloads, successful_downloads, attempts,
                   county_files, last_return, quit_calls, used_released>>
    /\ UNCHANGED sothers

\* `finally: driver.quit()`, after which main returns or the exception
\* goes on.
Quit ==
    /\ spc \in {"finally", "finally_raising"}
    /\ quit_calls' = quit_calls + 1
    /\ driver' = IF driver = "session" THEN "released" ELSE driver
    /\ spc' = IF spc = "finally" /\ driver = "session" THEN "returned"
              ELSE "raised"
    /\ UNCHANGED <<county_idx, param_idx, total_downloads,
                   completed_downloads, successful_downloads, attempts,
                   county_files, last_return, used_released>>
    /\ UNCHANGED sothers

SNext ==
    \/ \E started \in BOOLEAN : SetupDriver(started)
    \/ \E kind \in AttemptOutcomes : Attempt(kind)
    \/ \E interrupted \in BOOLEAN : Summary(interrupted)
    \/ Quit

\* ======================================================================
\* scripts/download_weather_data.py : the script from its first line
\* ======================================================================
\* os.getenv: None when the variable is not set, else its text.
NoToken == [present |-> FALSE, text |-> ""]
Token(t) == [present |-> TRUE, text |-> t]

Tokens == {NoToken, Token(""), Token("token")}

\* A test that takes only an unset variable for a missing token.
TokenMissingUnsetOnly(tok) == ~tok.present

\* `if not NOAA_TOKEN`
TokenMissing(tok) == ~tok.present \/ tok.text = ""

TStart ==
    /\ NOAA_TOKEN \in Tokens
    /\ output_dir_created = FALSE
    /\ startup_requests = <<>>
    /\ stations_file = FALSE
    /\ tpc = "startup"

\* Module level: the token test, which raises ValueError, then
\* OUTPUT_DIR.mkdir.
LoadToken ==
    /\ tpc = "startup"
    /\ IF TokenMissing(NOAA_TOKEN)
       THEN /\ tpc' = "fatal"
            /\ UNCHANGED output_dir_created
       ELSE /\ tpc' = "stations"
            /\ output_dir_created' = TRUE
    /\ UNCHANGED <<NOAA_TOKEN, startup_requests, stations_file>>
    /\ UNCHANGED <<wvars, tothers>>

\* How the request of get_california_stations or get_datasets ends.
StartupOutcomes == {"results", "no_results", "request_error"}

\* get_california_stations: the station list is saved when the reply has
\* results.
GetStations(kind) ==
    /\ tpc = "stations"
    /\ startup_requests' = Append(startup_requests, "stations")
    /\ stations_file' = (kind = "results")
    /\ tpc' = "datasets"
    /\ UNCHANGED <<NOAA_TOKEN, output_dir_created>>
    /\ UNCHANGED <<wvars, tothers>>

\* get_datasets
GetDatasets(kind) ==
    /\ tpc = "datasets"
    /\ startup_requests' = Append(startup_requests, "datasets")
    /\ tpc' = "call"
    /\ UNCHANGED <<NOAA_TOKEN, output_dir_created, stations_file>>
    /\ UNCHANGED <<wvars, tothers>>

\* main calls download_weather_data_yearly(start_year=2020, end_year=...).
CallYearly ==
    /\ tpc = "call"
    /\ wpc = "idle"
    /\ end_year' \in StartYear..(StartYear + MaxYears - 1)
    /\ wpc' = "request"
    /\ tpc' = "yearly"
    /\ UNCHANGED <<start_year, year, dtype, all_data, total_records,
                   yearly_files, combined_file, requests, last_outcome,
                   ok_units, sleeps>>
    /\ UNCHANGED <<NOAA_TOKEN, output_dir_created, startup_requests,
                   stations_file>>
    /\ UNCHANGED tothers

\* download_weather_data_yearly has returned; main prints and ends.
Finish ==
    /\ tpc = "yearly"
    /\ wpc = "done"
    /\ tpc' = "done"
    /\ UNCHANGED <<NOAA_TOKEN, output_dir_created, startup_requests,
                   stations_file>>
    /\ UNCHANGED <<wvars, tothers>>

TNext ==
    \/ LoadToken
    \/ \E kind \in StartupOutcomes : GetStations(kind)
    \/ \E kind \in StartupOutcomes : GetDatasets(kind)
    \/ CallYearly
    \/ Finish
    \/ WNext

\* ======================================================================
\* Specifications: each script runs on its own; the others stay idle.
\* ======================================================================
WIdle ==
    /\ start_year = StartYear
    /\ end_year = StartYear
    /\ year = StartYear
    /\ dtype = 1
    /\ all_data = <<>>
    /\ total_records = 0
    /\ yearly_files = [y \in {} |-> NoFile]
    /\ combined_file = NoFile
    /\ requests = <<>>
    /\ last_outcome = "none"
    /\ ok_units = <<>>
    /\ sleeps = <<>>
    /\ wpc = "idle"

DIdle ==
    /\ data_type = "precipitation"
    /\ lines_read = <<>>
    /\ line_records = <<>>
    /\ data = <<>>
    /\ pf_result = NotReturned
    /\ dpc = "idle"

MIdle ==
    /\ file_idx = 1
    /\ downloaded_files = <<>>
    /\ proc_idx = 1
    /\ processed_dfs = <<>>
    /\ merged_df = EmptyFrame
    /\ merge_result = EmptyFrame
    /\ processed_csv = NoFile
    /\ reported = {}
    /\ mpc = "idle"

PIdle ==
    /\ year_idx = 1
    /\ pop_all_data = <<>>
    /\ pop_year_files = [y \in {} |-> NoFile]
    /\ pop_combined_file = NoFile
    /\ pop_requests = <<>>
    /\ pop_responses = <<>>
    /\ pop_reported = {}
    /\ pop_result = NotReturned
    /\ ppc = "idle"

SIdle ==
    /\ driver = "unset"
    /\ county_idx = 1
    /\ param_idx = 1
    /\ total_downloads = 0
    /\ completed_downloads = 0
    /\ successful_downloads = 0
    /\ attempts = <<>>
    /\ county_files = {}
    /\ last_return = "none"
    /\ quit_calls = 0
    /\ used_released = FALSE
    /\ spc = "idle"

TIdle ==
    /\ NOAA_TOKEN = NoToken
    /\ output_dir_created = FALSE
    /\ startup_requests = <<>>
    /\ stations_file = FALSE
    /\ tpc = "idle"

WInit == WStart /\ DIdle /\ MIdle /\ PIdle /\ SIdle /\ TIdle

DInit == DStart /\ WIdle /\ MIdle /\ PIdle /\ SIdle /\ TIdle

MInit == MStart /\ WIdle /\ DIdle /\ PIdle /\ SIdle /\ TIdle

PInit == PStart /\ WIdle /\ DIdle /\ MIdle /\ SIdle /\ TIdle

SInit == SStart /\ WIdle /\ DIdle /\ MIdle /\ PIdle /\ TIdle

TInit == TStart /\ WIdle /\ DIdle /\ MIdle /\ PIdle /\ SIdle

SpecWeather == WInit /\ [][WNext]_vars

\* The loop is sequential code: a step that can be taken is taken.
SpecWeatherFair == SpecWeather /\ WF_vars(WNext)

SpecDecode == DInit /\ [][DNext]_vars

SpecClimate == MInit /\ [][MNext]_vars

SpecCensus == PInit /\ [][PNext]_vars

SpecSelenium == SInit /\ [][SNext]_vars

SpecWeatherScript == TInit /\ [][TNext]_vars

\* ---------------------------------------------------------------- claims
\* The (year, datatype) pairs of the range s..e in loop order.
AllPairs(s, e) ==
    [i \in 1..(Len(datatypes) * (e - s + 1)) |->
        <<s + ((i - 1) \div Len(datatypes)),
          datatypes[((i - 1) % Len(datatypes)) + 1]>>]

IsPrefix(p, q) == Len(p) <= Len(q) /\ \A i \in 1..Len(p) : p[i] = q[i]

\* The frames of the successful units of years up to and including y.
FramesUpTo(y) ==
    LET upto == SelectSeq(ok_units, LAMBDA u : u.year <= y)
    IN [i \in 1..Len(upto) |-> upto[i].df]

\* Years whose datatype loop and save step have completed.
CompletedYears == start_year..(year - 1)

\* C1: whatever the outcomes of the requests, the run ends having requested
\* every (year, datatype) pair of the range, and the combined file holds the
\* records of every unit that returned 200 with results.
C1_FailureDoesNotStopRun ==
    wpc = "done" =>
        /\ requests = AllPairs(start_year, end_year)
        /\ ok_units # <<>> =>
              combined_file = CsvFile(Concat(FramesUpTo(end_year)))

\* C1 witness: every request of the first year failed, a request of the
\* second year returned records, and they are in the combined file.
C1_Witness ==
    /\ wpc = "done"
    /\ end_year > start_year
    /\ \A i \in 1..Len(ok_units) : ok_units[i].year > start_year
    /\ \E i \in 1..Len(ok_units) : Len(ok_units[i].df) > 0
    /\ combined_file.written
    /\ Len(combined_file.rows) > 0

\* C2 as stated: every completed year has a snapshot file holding all data
\* accumulated up to that year, and at the end the accumulation is in the
\* combined file.
C2_SnapshotEveryYear ==
    /\ \A y \in CompletedYears :
          /\ y \in DOMAIN yearly_files
          /\ yearly_files[y] = CsvFile(Concat(FramesUpTo(y)))
    /\ wpc = "done" => combined_file = CsvFile(Concat(all_data))

\* C2 amended: a completed year has a snapshot file exactly when some unit
\* had been accumulated by the end of that year, and the file then holds all
\* data accumulated from the start year up to that year; at the end the
\* combined file holds the full accumulation, and is absent when nothing
\* was accumulated.
C2_SnapshotWhenNonEmpty ==
    /\ \A y \in CompletedYears :
          IF FramesUpTo(y) = <<>>
          THEN y \notin DOMAIN yearly_files
          ELSE /\ y \in DOMAIN yearly_files
               /\ yearly_files[y] = CsvFile(Concat(FramesUpTo(y)))
    /\ DOMAIN yearly_files \subseteq CompletedYears
    /\ wpc = "done" =>
          combined_file =
             IF all_data = <<>> THEN NoFile ELSE CsvFile(Concat(all_data))

\* C2 witness: the snapshot of the second year holds records of the first
\* year as well as of the second.
C2_Witness ==
    /\ (start_year + 1) \in DOMAIN yearly_files
    /\ \E i, j \in 1..Len(yearly_files[start_year + 1].rows) :
          /\ yearly_files[start_year + 1].rows[i][1] = start_year
          /\ yearly_files[start_year + 1].rows[j][1] = start_year + 1
    /\ wpc = "done"
    /\ combined_file = yearly_files[start_year + 1]

\* Steps the loop still has to take.
Remaining ==
    CASE wpc = "done" -> 0
      [] wpc = "combine" -> 1
      [] wpc = "save" -> 2 + (Len(datatypes) + 1) * (end_year - year)
      [] wpc = "request" ->
            (Len(datatypes) + 1 - dtype) + 2
               + (Len(datatypes) + 1) * (end_year - year)

\* C3: the requests issued are always a prefix of the (year, datatype) pairs
\* in ascending year order and TMAX, TMIN, PRCP order, one request per pair;
\* the finished run has issued exactly 3 x (end_year - start_year + 1)
\* requests; and the loop terminates: it is never stuck before the end and
\* every step decreases the number of remaining steps.
C3_OneRequestPerPair ==
    /\ [](/\ IsPrefix(requests, AllPairs(start_year, end_year))
          /\ wpc = "done" =>
                /\ requests = AllPairs(start_year, end_year)
                /\ Len(requests) = 3 * (end_year - start_year + 1)
          /\ Remaining >= 0
          /\ wpc # "done" => ENABLED WNext)
    /\ [][Remaining' < Remaining]_vars

\* C3 witness: a finished run over two years in which a request failed and
\* six requests were issued.
C3_Witness ==
    /\ wpc = "done"
    /\ end_year = start_year + 1
    /\ Len(requests) = 6
    /\ Len(ok_units) < Len(requests)
    /\ last_outcome = "exc"

\* ----------------------------------------------- claims about the decoder
LastLine == lines_read[Len(lines_read)]

\* The k-th 5-character monthly field of a line as it is in the file.
RawField(raw, k) ==
    Slice(raw, FieldOffsets[k], FieldOffsets[k] + FieldWidth)

LongLines == SelectSeq(lines_read, LAMBDA l : Len(l) >= LineWidth)

\* C4: a line shorter than 68 characters adds no record and raises no
\* error, the loop goes on, and the records built are those of the other
\* lines: the same as for the file without its short lines.
C4_ShortLineSkipped ==
    /\ (lines_read # <<>> /\ Len(LastLine) < LineWidth) =>
          /\ line_records = <<>>
          /\ pf_result # None
          /\ dpc \in {"loop", "returned"}
    /\ pf_result # None =>
          data = ProcessLines(<<>>, LongLines, data_type).rows
    /\ pf_result.kind = "frame" =>
          pf_result = ProcessLines(<<>>, LongLines, data_type)

\* C4 witness: a short line was read and skipped, a full line after it was
\* decoded, and the frame returned holds the twelve records of that line.
C4_Witness ==
    /\ Len(lines_read) = 2
    /\ Len(lines_read[1]) \in 1..(LineWidth - 1)
    /\ Len(lines_read[2]) >= LineWidth
    /\ pf_result.kind = "frame"
    /\ Len(pf_result.rows) = 12
    /\ pf_result.rows = line_records

IsNullField(f) == f = Sentinel \/ Strip(f) = <<>>

\* C5: for a line of at least 68 characters, every monthly field that is
\* the sentinel or empty after trimming is null in the record emitted for
\* its month.
C5_SentinelAndEmptyAreNull ==
    (lines_read # <<>> /\ Len(LastLine) >= LineWidth) =>
        \A k \in DOMAIN FieldOffsets :
            IsNullField(RawField(LastLine, k)) =>
                /\ Len(line_records) = Len(FieldOffsets)
                /\ line_records[k].month = k
                /\ line_records[k].value = NullValue

\* A right-justified integer: spaces, an optional minus sign, digits
\* without a leading zero; not minus zero.
IsIntegerField(f) ==
    LET body == Strip(f)
        digits == IF body # <<>> /\ body[1] = "-" THEN Tail(body) ELSE body
    IN /\ Len(f) = FieldWidth
       /\ body # <<>>
       /\ f = [i \in 1..(FieldWidth - Len(body)) |-> " "] \o body
       /\ digits # <<>>
       /\ \A i \in 1..Len(digits) : IsDigit(digits[i])
       /\ (Len(digits) > 1 => digits[1] # "0")
       /\ (body[1] = "-" => digits # <<"0">>)

AllDigits(s) == s # <<>> /\ \A i \in 1..Len(s) : IsDigit(s[i])

\* A well-formed line: 4 digits of division code, 4 digits of year, and
\* twelve fields that each hold an integer or the sentinel.
WellFormedLine(raw) ==
    /\ Len(raw) >= LineWidth
    /\ AllDigits(Slice(raw, 0, CodeWidth))
    /\ AllDigits(Slice(raw, CodeWidth, FieldsStart))
    /\ \A k \in DOMAIN FieldOffsets :
          RawField(raw, k) = Sentinel \/ IsIntegerField(RawField(raw, k))

\* The fixed-width text of an integer.
FormatField(neg, n) ==
    LET body == (IF neg /\ n > 0 THEN <<"-">> ELSE <<>>) \o NatDec(n)
    IN [i \in 1..(FieldWidth - Len(body)) |-> " "] \o body

\* Re-encoding with the product rounded to the nearest integer.
EncodeRounded(v) ==
    IF v.isnull THEN Sentinel
    ELSE FormatField(v.num.neg, RoundToNat(FloatMul(v.num, Scale)))

\* Whether value * 100, with null restored to the sentinel, is the field.
RecoversExactly(v, f) ==
    IF v.isnull THEN f = Sentinel
    ELSE /\ f # Sentinel
         /\ FloatMul(v.num, Scale) = FloatOfInt(ParseInt(f).val)

\* C6 as stated: for a well-formed line, the decoded value of every field
\* times 100, null restored to the sentinel, is the original value.
C6_RoundTripExact ==
    (lines_read # <<>> /\ WellFormedLine(LastLine)) =>
        /\ Len(line_records) = Len(FieldOffsets)
        /\ \A k \in DOMAIN FieldOffsets :
              RecoversExactly(line_records[k].value, RawField(LastLine, k))

\* C6 amended: for a well-formed line, the decoded value of every field
\* times 100 and rounded to the nearest integer, null restored to the
\* sentinel, is the original field.
C6_RoundTripRounded ==
    (lines_read # <<>> /\ WellFormedLine(LastLine)) =>
        /\ Len(line_records) = Len(FieldOffsets)
        /\ \A k \in DOMAIN FieldOffsets :
              EncodeRounded(line_records[k].value) = RawField(LastLine, k)

\* C6 witness: a well-formed line was decoded whose field 29 does not come
\* back from the product alone but does after rounding, next to a sentinel
\* that came back from null.
C6_Witness ==
    /\ lines_read # <<>>
    /\ WellFormedLine(LastLine)
    /\ Len(line_records) = Len(FieldOffsets)
    /\ \E k \in DOMAIN FieldOffsets :
          /\ RawField(LastLine, k) = Text29
          /\ ~RecoversExactly(line_records[k].value, RawField(LastLine, k))
          /\ EncodeRounded(line_records[k].value) = RawField(LastLine, k)
    /\ \E k \in DOMAIN FieldOffsets :
          /\ RawField(LastLine, k) = Sentinel
          /\ line_records[k].value = NullValue

\* ------------------------------------------------- claims: main, the merge
\* The merge loop has run and left a table.
MergeDone == mpc \in {"filter", "done"} /\ processed_dfs # <<>>

UnionKeys == UNION {KeysOf(processed_dfs[i]) : i \in DOMAIN processed_dfs}

\* Every variable column of a merged row is null where the variable's table
\* lacks the row's key.
NullFilled ==
    \A r \in BagToSet(merge_result.rows) : \A i \in DOMAIN processed_dfs :
        Key(r) \notin KeysOf(processed_dfs[i]) =>
            \A c \in processed_dfs[i].columns : r.vals[c] = NullValue

\* Every key of every table has a row in the merged table.
EveryKeyPresent ==
    \A k \in UnionKeys : \E r \in BagToSet(merge_result.rows) : Key(r) = k

Multiplicity(T, k) ==
    BagCardinality([r \in {x \in BagToSet(T.rows) : Key(x) = k} |-> T.rows[r]])

RECURSIVE RowsPerKey(_, _)
RowsPerKey(k, i) ==
    IF i > Len(processed_dfs) THEN 1
    ELSE (IF Multiplicity(processed_dfs[i], k) = 0 THEN 1
          ELSE Multiplicity(processed_dfs[i], k)) * RowsPerKey(k, i + 1)

RECURSIVE SumRowsPerKey(_)
SumRowsPerKey(K) ==
    IF K = {} THEN 0
    ELSE LET k == CHOOSE k \in K : TRUE
         IN RowsPerKey(k, 1) + SumRowsPerKey(K \ {k})

UniqueKeys(T) == \A k \in KeysOf(T) : Multiplicity(T, k) = 1

C8_YearsInRange ==
    processed_csv.written =>
        /\ \A r \in BagToSet(processed_csv.rows) :
              /\ r.year >= 2000 /\ r.year <= 2025
              /\ r.year \notin {1999, 2026}
        /\ \A r \in BagToSet(merge_result.rows) :
              r.year \in {2000, 2025} =>
                  /\ WithDate(r) \in BagToSet(processed_csv.rows)
                  /\ CopiesIn(WithDate(r), processed_csv.rows)
                        = CopiesIn(r, merge_result.rows)

\* The CSV was written from a merge that held a row of 1999 or 2026 and a
\* row of 2000 or 2025.
C8_Witness ==
    /\ processed_csv.written
    /\ \E r \in BagToSet(merge_result.rows) : r.year \in {1999, 2026}
    /\ \E r \in BagToSet(processed_csv.rows) : r.year \in {2000, 2025}

VariableFiles == SelectSeq(files_to_download, LAMBDA dt : dt \in DataTypes)

\* The tables of the variable files that were downloaded and decoded, in
\* file order, computed from the files alone.
SucceededTables ==
    LET got(dt) == \E i \in DOMAIN downloaded_files :
                       downloaded_files[i].data_type = dt
        ok == SelectSeq(VariableFiles,
                        LAMBDA dt : got(dt)
                                    /\ Failure("process", dt) \notin reported)
    IN [j \in DOMAIN ok |->
           LET f == CHOOSE f \in Range(downloaded_files) : f.data_type = ok[j]
           IN TableOf(ProcessLines(<<>>, f.lines, ok[j]), ok[j])]

\* C9: a failed download or a read/decode exception is reported and
\* excludes only that file; every file is still attempted, the processed
\* CSV is written from the files that succeeded, and no CSV is written only
\* when no variable file succeeded.
C9_FailureExcludesOnlyThatFile ==
    /\ mpc # "download" =>
          /\ file_idx = Len(files_to_download) + 1
          /\ \A dt \in Range(files_to_download) :
                \/ \E i \in DOMAIN downloaded_files :
                      downloaded_files[i].data_type = dt
                \/ Failure("download", dt) \in reported
    /\ mpc \in {"done", "crashed"} =>
          /\ proc_idx = Len(downloaded_files) + 1
          /\ processed_dfs = SucceededTables
          /\ (SucceededTables = <<>> => ~processed_csv.written)
          /\ (\E i \in DOMAIN SucceededTables : SucceededTables[i].keyed) =>
                /\ processed_csv.written
                /\ \A i \in DOMAIN SucceededTables :
                      \A x \in BagToSet(SucceededTables[i].rows) :
                          InRange(x.year) =>
                              \E r \in BagToSet(processed_csv.rows) :
                                  /\ Key(r) = Key(x)
                                  /\ \A c \in SucceededTables[i].columns :
                                        r.vals[c] = x.vals[c]

\* ---------------------------------------------- claims: population data
\* A cell of the response that spells a number.
IsNumericCell(cell) ==
    /\ ~cell.isnull
    /\ cell.text # <<>>
    /\ \A i \in 1..Len(cell.text) : IsDigit(cell.text[i])

\* The responses that came with rows, in request order.
OkResponses == SelectSeq(pop_responses, LAMBDA a : a.kind = "ok")

\* The number of rows the first j responses with rows hold together.
RowsBefore(j) == SumSeq([a \in 1..j |-> Len(OkResponses[a].rows)])

\* The row written for a response row: the same county and year, every
\* population field that is no number empty, every other one the number.
WrittenAs(raw, y, out) ==
    /\ out.county_fips = raw.county
    /\ out.year = IntText(y)
    /\ \A c \in Range(population_cols) :
          IF IsNumericCell(raw[c])
          THEN out[c] \in {raw[c].text, raw[c].text \o <<".", "0">>}
          ELSE out[c] = <<>>

\* C10: a row whose total, male or female population field is not numeric
\* has that field coerced to null without raising; the row is written to
\* the year's CSV and to the combined CSV with the null kept, and no row is
\* dropped.
C10_NonNumericCoercedToNull ==
    /\ \A a \in DOMAIN pop_responses :
          pop_responses[a].kind = "ok" =>
              LET y == pop_responses[a].year
                  rows == pop_responses[a].rows
              IN /\ y \notin pop_reported
                 /\ y \in DOMAIN pop_year_files
                 /\ pop_year_files[y].written
                 /\ Len(pop_year_files[y].rows) = Len(rows)
                 /\ \A i \in DOMAIN rows :
                       WrittenAs(rows[i], y, pop_year_files[y].rows[i])
    /\ ppc = "done" /\ OkResponses # <<>> =>
          /\ pop_combined_file.written
          /\ Len(pop_combined_file.rows) = RowsBefore(Len(OkResponses))
          /\ \A j \in DOMAIN OkResponses : \A i \in DOMAIN OkResponses[j].rows :
                WrittenAs(OkResponses[j].rows[i], OkResponses[j].year,
                          pop_combined_file.rows[RowsBefore(j - 1) + i])

\* The run has ended, a response held a row whose total population is the
\* text N/A, and the combined CSV holds a row with an empty total.
C10_Witness ==
    /\ ppc = "done"
    /\ \E a \in DOMAIN pop_responses : \E i \in DOMAIN pop_responses[a].rows :
          /\ pop_responses[a].rows[i].total_population = Str(TextNA)
          /\ pop_responses[a].year \in DOMAIN pop_year_files
          /\ pop_year_files[pop_responses[a].year].rows[i].total_population = <<>>
    /\ pop_combined_file.written
    /\ \E i \in DOMAIN pop_combined_file.rows :
          pop_combined_file.rows[i].total_population = <<>>

\* The year column and the county column of the rows the responses with
\* rows hold, in request order.
RECURSIVE ExpectedRows(_)
ExpectedRows(resps) ==
    IF resps = <<>> THEN <<>>
    ELSE [i \in DOMAIN Head(resps).rows |->
             <<IntText(Head(resps).year), Head(resps).rows[i].county>>]
         \o ExpectedRows(Tail(resps))

\* C11: every configured year is attempted exactly once, in list order; a
\* year that fails is reported and skipped and the later years still run;
\* the combined CSV holds exactly the rows of the years that succeeded, in
\* year-list order; when no year succeeds no combined CSV is written and
\* the function returns None.
C11_EveryYearAttemptedOnce ==
    /\ Len(pop_responses) = year_idx - 1
    /\ Len(pop_requests) = Len(pop_responses)
    /\ \A a \in DOMAIN pop_responses :
          /\ pop_responses[a].year = years[a]
          /\ pop_requests[a] = CensusRequest(years[a])
          /\ pop_responses[a].kind # "ok" =>
                /\ years[a] \in pop_reported
                /\ years[a] \notin DOMAIN pop_year_files
    /\ Len(pop_all_data) = Len(OkResponses)
    /\ ppc = "done" =>
          /\ Len(pop_responses) = Len(years)
          /\ IF OkResponses = <<>>
             THEN ~pop_combined_file.written /\ pop_result = None
             ELSE /\ pop_combined_file.written
                  /\ pop_result # None
                  /\ [i \in DOMAIN pop_combined_file.rows |->
                         <<pop_combined_file.rows[i].year,
                           pop_combined_file.rows[i].county_fips>>]
                        = ExpectedRows(OkResponses)

\* The run has ended; a request failed, another raised inside the try
\* block, and years after them and before them delivered rows.
C11_Witness ==
    /\ ppc = "done"
    /\ pop_combined_file.written
    /\ \E a, b, c, d \in DOMAIN pop_responses :
          /\ a < b /\ b < c /\ c < d
          /\ pop_responses[a].kind = "ok"
          /\ pop_responses[b].kind = "request_error"
          /\ pop_responses[c].kind = "unexpected"
          /\ pop_responses[d].kind = "ok"

\* ------------------------------------------ claims: browser-driven downloads
MainEnded == spc \in {"returned", "raised"}

\* C12: once the driver has started, driver.quit is called exactly once
\* before main ends, when the loop completes and when an exception leaves
\* it, and no download attempt uses the driver after the release.
C12_SessionReleasedOnce ==
    /\ quit_calls <= 1
    /\ ~used_released
    /\ driver = "released" => MainEnded
    /\ MainEnded /\ driver # "none" => quit_calls = 1 /\ driver = "released"

\* An exception left the loop after a first attempt and main has ended
\* with the session released.
C12_Witness ==
    /\ spc = "raised"
    /\ Len(attempts) > 1
    /\ Len(attempts) < Len(Counties) * Len(ParameterKeys)
    /\ driver = "released"
    /\ quit_calls = 1

\* The configured pairs in county-major order.
PairsInOrder ==
    [i \in 1..(Len(Counties) * Len(ParameterKeys)) |->
        <<Counties[((i - 1) \div Len(ParameterKeys)) + 1],
          ParameterKeys[((i - 1) % Len(ParameterKeys)) + 1]>>]

\* C13: provided the driver started, every (county, parameter) pair is
\* attempted exactly once in county-major order whichever attempts fail; at
\* the summary completed_downloads = total_downloads and
\* successful_downloads is the number of attempts that returned success;
\* always successful_downloads <= completed_downloads <= total_downloads.
C13_EveryPairAttemptedOnce ==
    /\ IsPrefix(attempts, PairsInOrder)
    /\ successful_downloads <= completed_downloads
    /\ completed_downloads <= total_downloads
    /\ successful_downloads = Cardinality(county_files)
    /\ spc = "loop" => completed_downloads = Len(attempts)
    /\ spc \in {"summary", "finally", "returned"} /\ driver # "none" =>
          /\ attempts = PairsInOrder
          /\ completed_downloads = total_downloads
          /\ total_downloads = Len(Counties) * Len(ParameterKeys)

\* Main has returned after the summary; some attempts succeeded, others
\* failed, the last one among them.
C13_Witness ==
    /\ spc = "returned"
    /\ driver = "released"
    /\ successful_downloads > 0
    /\ successful_downloads < completed_downloads
    /\ last_return = FALSE

\* C15: when the driver cannot be started main ends with no download
\* attempt, no output file and no driver.quit call.
C15_NoDriverIsFatal ==
    /\ driver = "none" =>
          /\ spc = "returned"
          /\ attempts = <<>>
          /\ county_files = {}
          /\ quit_calls = 0
          /\ completed_downloads = 0
    /\ attempts # <<>> => driver \in {"session", "released"}

\* setup_driver returned None and main has returned.
C15_Witness ==
    /\ driver = "none"
    /\ spc = "returned"
    /\ quit_calls = 0

\* ------------------------------------------- claims: the token at startup
\* C14: when the NOAA API token is absent or empty the script fails at
\* startup before any HTTP request, before the output directory is created
\* and before any file is written.
C14_MissingTokenIsFatal ==
    (~NOAA_TOKEN.present \/ NOAA_TOKEN.text = "") =>
        /\ tpc \in {"startup", "fatal"}
        /\ startup_requests = <<>>
        /\ requests = <<>>
        /\ ~output_dir_created
        /\ ~stations_file
        /\ DOMAIN yearly_files = {}
        /\ ~combined_file.written

\* The script has failed at startup on an empty token.
C14_Witness ==
    /\ NOAA_TOKEN = Token("")
    /\ tpc = "fatal"

\* ---------------------------------------- claims: the sleep between requests
\* C16 as stated: between two consecutive requests exactly one sleep
\* occurs, and its duration is the same after every request whatever the
\* request's outcome.
C16_OneFixedSleep ==
    [][requests' # requests =>
          /\ Len(sleeps') = 1
          /\ requests # <<>> => sleeps' = sleeps]_vars

\* C16, amended: after every request exactly one sleep occurs before the
\* next request; it lasts 0.3 s after a response (200 with data, 200
\* without data, another status) and 1 s after an exception.
C16_OneSleepPerRequest ==
    /\ requests = <<>> => sleeps = <<>>
    /\ requests # <<>> =>
          /\ Len(sleeps) = 1
          /\ last_outcome \in {"ok", "nodata", "status"} => sleeps[1] = 3
          /\ last_outcome = "exc" => sleeps[1] = 10
          /\ last_outcome \in {"ok", "nodata", "status", "exc"}

\* A request that raised has been followed by its sleep, after an earlier
\* request.
C16_Witness ==
    /\ Len(requests) > 1
    /\ last_outcome = "exc"
    /\ sleeps = <<10>>

\* ------------------------------------- claims: the records of a decoded line
\* The year field of a line as it is in the file, read as an integer.
RawYear(raw) == ParseInt(Slice(raw, CodeWidth, FieldsStart))

\* C17: a line of at least 68 characters with an integer year field yields
\* exactly 12 records, for the months 1..12 in order, each with the line's
\* division code and year, the record of month k taking its value from the
\* field at positions 8+5(k-1) to 8+5k, under the caller's variable name.
C17_TwelveRecordsPerLine ==
    (lines_read # <<>> /\ Len(LastLine) >= LineWidth /\ RawYear(LastLine).ok) =>
        /\ Len(line_records) = 12
        /\ \A k \in 1..12 :
              /\ line_records[k].month = k
              /\ line_records[k].division_code = Slice(LastLine, 0, CodeWidth)
              /\ line_records[k].year = RawYear(LastLine).val
              /\ line_records[k].variable = data_type
              /\ line_records[k].value =
                    DecodeField(Strip(RawField(LastLine, k)))

\* A field that is not empty, is not the sentinel and is not a number.
IsUnparseable(f) ==
    /\ Strip(f) # <<>>
    /\ Strip(f) # Sentinel
    /\ ~ParseFloat(Strip(f)).ok

\* C19: a monthly field that is not empty, is not the sentinel and cannot
\* be parsed is null for its month only: the line still yields 12 records,
\* the other months keep their decoded values, and decoding goes on.
C19_UnparseableFieldIsNull ==
    (lines_read # <<>> /\ Len(LastLine) >= LineWidth) =>
        \A k \in DOMAIN FieldOffsets :
            IsUnparseable(RawField(LastLine, k)) =>
                /\ pf_result # None
                /\ Len(line_records) = Len(FieldOffsets)
                /\ line_records[k].value = NullValue
                /\ \A j \in DOMAIN FieldOffsets \ {k} :
                      line_records[j].value =
                          DecodeField(Strip(RawField(LastLine, j)))

\* ------------------------------------------ claims: all or nothing per file
\* The file holds a line that raises while it is decoded.
HasRaisingLine(f) ==
    \E i \in DOMAIN f.lines : LineDecoding[f.lines[i]].raised

\* C18: a variable file with a line that raises during decoding gives None,
\* the failure is reported, and no record of the file, the ones decoded
\* before that line included, is in a processed table, in the merge or in
\* the processed CSV.
C18_AllOrNothingPerFile ==
    \A i \in DOMAIN downloaded_files :
        LET f == downloaded_files[i]
        IN (f.data_type \in DataTypes /\ HasRaisingLine(f)) =>
              /\ ProcessClimateFile(TRUE, f.lines, f.data_type) = None
              /\ \A j \in DOMAIN processed_dfs :
                    f.data_type \notin processed_dfs[j].columns
              /\ f.data_type \notin merged_df.columns
              /\ f.data_type \notin merge_result.columns
              /\ processed_csv.written =>
                    \A r \in BagToSet(processed_csv.rows) :
                        f.data_type \notin DOMAIN r.vals
              /\ proc_idx > i => Failure("process", f.data_type) \in reported

\* main has ended after it processed a file whose first line decodes to
\* twelve records and whose second line raises.
C18_Witness ==
    /\ mpc = "done"
    /\ \E i \in DOMAIN downloaded_files :
          LET f == downloaded_files[i]
          IN /\ f.data_type \in DataTypes
             /\ Len(f.lines) = 2
             /\ Len(Step(<<>>, f.lines[1], f.data_type).added) = 12
             /\ LineDecoding[f.lines[2]].raised
             /\ Failure("process", f.data_type) \in reported

\* ------------------------------------- claims: the request of a census year
\* A row of a CSV without its year column.
WithoutYear(row) == [c \in DOMAIN row \ {"year"} |-> row[c]]

\* The requests i and j were answered with the same rows.
SameAnswer(i, j) ==
    /\ pop_responses[i].kind = "ok"
    /\ pop_responses[j].kind = "ok"
    /\ pop_responses[i].rows = pop_responses[j].rows

UnitFrames == [i \in 1..Len(ok_units) |-> ok_units[i].df]

\* C21: the buffer all_data is append-only.  No step removes, replaces or
\* reorders a unit it holds, and a written snapshot is never rewritten; the
\* buffer is the successful units in request order; the content of a
\* per-year snapshot is a prefix of the content of every later snapshot;
\* the combined file, when written, is the concatenation of the successful
\* units in request order; and total_records is the number of records in
\* the buffer.
C21_BufferAppendOnly ==
    /\ [](/\ all_data = UnitFrames
          /\ total_records = Len(Concat(all_data))
          /\ \A y1, y2 \in DOMAIN yearly_files :
                y1 < y2 => IsPrefix(yearly_files[y1].rows,
                                    yearly_files[y2].rows)
          /\ \A y \in DOMAIN yearly_files :
                IsPrefix(yearly_files[y].rows, Concat(all_data))
          /\ combined_file.written =>
                combined_file.rows = Concat(UnitFrames))
    /\ [][/\ IsPrefix(all_data, all_data')
          /\ \A y \in DOMAIN yearly_files :
                /\ y \in DOMAIN yearly_files'
                /\ yearly_files'[y] = yearly_files[y]]_vars

\* C21 witness: a finished run over two years with a failed request, whose
\* first snapshot holds records and whose second snapshot holds more, and
\* whose combined file holds the records counted in total_records.
C21_Witness ==
    /\ wpc = "done"
    /\ DOMAIN yearly_files = {start_year, start_year + 1}
    /\ Len(yearly_files[start_year].rows) > 0
    /\ Len(yearly_files[start_year].rows)
          < Len(yearly_files[start_year + 1].rows)
    /\ Len(ok_units) < Len(requests)
    /\ combined_file.written
    /\ total_records = Len(combined_file.rows)
    /\ total_records >= 2

====
